---- MODULE Spec2Model ----
(***************************************************************************)
(* The non-linear global placer of IdeaPlaceEx (src/place/NlpGPlacer.h,    *)
(* NlpGPlacer.cpp): one solve() of NlpGPlacerBase or NlpGPlacerFirstOrder  *)
(* on a placement database, down to the single tasks of the objective and  *)
(* gradient task graphs.                                                   *)
(*                                                                         *)
(* RealType values are fixed-point integers (FP units per 1.0); a vector   *)
(* is a function on 0 .. size-1.  Storage that the code leaves             *)
(* uninitialised holds Garbage.                                            *)
(***************************************************************************)
EXTENDS Integers, Sequences, FiniteSets, TLC

\* ---------------------------------------------------------------- bounds
MaxCells == 2
MaxNets == 1
MaxSymGroups == 2
MaxSegs == 1
MaxSolves == 2

\* ------------------------------------------------------------- numerics
FP == 100
\* what uninitialised storage holds, and the two non-finite doubles
Garbage == -7777777
Inf == 900000000
NaN == -900000000

IsFinite(a) == a # Inf /\ a # NaN

\* i * a of an integer and a RealType
IMul(i, a) == IF a = NaN THEN NaN ELSE IF a = Inf THEN (IF i = 0 THEN NaN ELSE Inf) ELSE i * a

Abs(a) == IF a < 0 THEN -a ELSE a
Max2(a, b) == IF a < b THEN b ELSE a

RECURSIVE IsqrtIn(_, _, _)
IsqrtIn(n, lo, hi) ==
    IF lo >= hi THEN lo
    ELSE LET mid == (lo + hi + 1) \div 2
         IN  IF mid * mid <= n THEN IsqrtIn(n, mid, hi) ELSE IsqrtIn(n, lo, mid - 1)

\* floor of the square root, 0 <= n < 2^31
Isqrt(n) == IsqrtIn(n, 0, 46340)

\* a * b of two RealType values, IEEE-754 non-finite results kept
RMul(a, b) ==
    IF a = NaN \/ b = NaN THEN NaN
    ELSE IF a = Inf \/ b = Inf
         THEN IF a = 0 \/ b = 0 THEN NaN ELSE Inf
         ELSE (a * b) \div FP

RAdd(a, b) == IF a = NaN \/ b = NaN THEN NaN ELSE IF a = Inf \/ b = Inf THEN Inf ELSE a + b

RHalf(a) == IF IsFinite(a) THEN a \div 2 ELSE a

RECURSIVE SumSeq(_)
SumSeq(s) == IF s = <<>> THEN 0 ELSE Head(s) + SumSeq(Tail(s))

\* ------------------------------------------------------------- database
\* The databases a solve is run on: the counts are free within the bounds,
\* the geometry is fixed per index.  Nets, symmetry groups and path
\* segments refer to cells, so a database without cells has none of them.
Databases ==
    { d \in [numCells : 0..MaxCells, numNets : 0..MaxNets,
             numSymGroups : 0..MaxSymGroups, numSegs : 0..MaxSegs,
             boundarySet : BOOLEAN] :
        d.numCells = 0 => (d.numNets = 0 /\ d.numSymGroups = 0 /\ d.numSegs = 0) }

\* cell(c).cellBBox(), database units
CellBBox(c) == [xLo |-> c, yLo |-> 2 * c, xHi |-> c + 10, yHi |-> 2 * c + 10]
XLen(b) == b.xHi - b.xLo
YLen(b) == b.yHi - b.yLo

\* calculateTotalCellArea(), database units squared
TotalCellArea(d) ==
    SumSeq([c \in 1..d.numCells |-> XLen(CellBBox(c - 1)) * YLen(CellBBox(c - 1))])

\* parameters().boundaryConstraint(), database units
BoundaryConstraint == [xLo |-> 5, yLo |-> 0, xHi |-> 45, yHi |-> 40]

\* parameters().maxWhiteSpace(), as a RealType
MaxWhiteSpace == FP \div 5

\* Every cell has two pins: pin(p).cellIdx() and pin(p).midLoc()
PinCell(p) == p \div 2
PinMidLoc(p) ==
    IF p % 2 = 0
    THEN [x |-> CellBBox(PinCell(p)).xLo + 2, y |-> CellBBox(PinCell(p)).yLo + 5]
    ELSE [x |-> CellBBox(PinCell(p)).xLo + 8, y |-> CellBBox(PinCell(p)).yLo + 3]

\* net(n): its pins, in pin order, and its weight
NetPins(d, n) == <<2 * (n % d.numCells), 2 * ((n + 1) % d.numCells) + 1>>
NetWeight(n) == n + 1

\* symGroup(g): its symmetric pairs and its self-symmetric cells
SymPairs(d, g) == IF d.numCells >= 2 THEN <<[first |-> 0, second |-> 1]>> ELSE <<>>
SelfSyms(d, g) == IF d.numCells >= 2 THEN <<>> ELSE <<g % d.numCells>>

\* SigPathMgr(db).vSegList(): the four pins of segment s
SegList(d) ==
    [k \in 1..d.numSegs |->
        [sPinIdx    |-> 2 * ((k - 1) % d.numCells),
         midPinIdxA |-> 2 * (k % d.numCells),
         midPinIdxB |-> 2 * (k % d.numCells) + 1,
         tPinIdx    |-> 2 * ((k + 1) % d.numCells) + 1]]

VARIABLES
    db,              \* the Database the placer was constructed on
    cellLoc,         \* the locations setXLoc/setYLoc have stored in the Database's cells
    solves,          \* the calls of solve() on the placer, the running one included
    build,           \* the class solved with and the MULTI_SYM_GROUP build flag
    pc,              \* the statement of solve() that runs next
    trace,           \* the functions of solve() that have returned, in order
    randState,       \* the state of the C library's generator
    _numCells,
    _alpha,
    _scale,
    _boundary,
    _totalCellArea,
    _defaultSymAxis,
    _pl,             \* with the views _plx, _ply, _sym onto it
    grads,           \* _grad ("all") and the five family gradients
    ops,             \* _hpwlOps, _ovlOps, _oobOps, _asymOps, _cosOps
    tasks,           \* the task lists and the single tasks constructed so far
    objs,            \* _obj ("all") and the five family objectives
    _taskflow,       \* the wrapper tasks registered in the taskflow
    run              \* the running wrapper tasks: position and log of each

vars == <<db, cellLoc, solves, build, pc, trace, randState, _numCells, _alpha, _scale, _boundary,
          _totalCellArea, _defaultSymAxis, _pl, grads, ops, tasks, objs,
          _taskflow, run>>

Families == <<"hpwl", "ovl", "oob", "asym", "cos">>
FamilySet == {"hpwl", "ovl", "oob", "asym", "cos"}
Buffers == FamilySet \cup {"all"}


\* --------------------------------------------------------- the index map
\* plIdx with the y block one entry after the x entry
plIdx_Stride1(cellIdx, orient) ==
    IF orient = "HORIZONTAL" THEN cellIdx
    ELSE IF orient = "VERTICAL" THEN cellIdx + 1
    ELSE IF build.MULTI_SYM_GROUP THEN cellIdx + 2 * _numCells
    ELSE 2 * _numCells

\* plIdx(cellIdx, orient); for the third orient cellIdx is a symmetry group
plIdx(cellIdx, orient) ==
    IF orient = "HORIZONTAL" THEN cellIdx
    ELSE IF orient = "VERTICAL" THEN cellIdx + _numCells
    ELSE IF build.MULTI_SYM_GROUP THEN cellIdx + 2 * _numCells
    ELSE 2 * _numCells

\* the views _plx, _ply and _sym of initVariables: the position of entry idx
PlxPos(idx) == idx
PlyPos(idx) == _numCells + idx
SymPos(idx) == 2 * _numCells + idx

InBounds(v, pos) == pos \in DOMAIN v

\* resize(size) of an Eigen vector: the coefficients are not initialised
Resized(size) == [p \in 0..(size - 1) |-> Garbage]

\* ------------------------------------------------- the C library's rand()
\* the values the GNU C library's rand() returns after srand(6)
RandSequence ==
    <<290852541, 2066988985, 1717401112, 865455665, 182811308, 1730087285,
      1385463286, 531287043, 665477002, 2111229778>>

\* the generator's state: the values drawn since it was seeded
Srand(seed) == 0
RandNext(s) == s + 1
\* the value rand() returns when it leaves the generator in state s
RandValue(s) == RandSequence[s]

\* -------------------------------------------------------------- solve()
\* solve with the operators built ahead of initProblem()
solve_OperatorsFirst ==
    <<"initOperators", "initProblem", "initRandomPlacement", "constructTasks", "optimize">>

\* the body of solve()
solve == <<"initProblem", "initRandomPlacement", "initOperators", "constructTasks", "optimize">>

\* the body of initProblem(), of the base class and of the first-order class
initProblem ==
    IF build.firstOrder
    THEN <<"initHyperParams", "initBoundaryParams", "initVariables", "initFirstOrderGrad">>
    ELSE <<"initHyperParams", "initBoundaryParams", "initVariables">>

RECURSIVE Inlined(_)
\* a body with the call of initProblem() replaced by that function's body
Inlined(body) ==
    IF body = <<>> THEN <<>>
    ELSE IF Head(body) = "initProblem" THEN initProblem \o Inlined(Tail(body))
    ELSE <<Head(body)>> \o Inlined(Tail(body))

\* the functions one solve() calls, in order
Statements == Inlined(solve)

Returned(f) == \E i \in 1..Len(trace) : trace[i] = f

\* function f returns: the next statement of solve() is up
Return(f) ==
    /\ trace' = Append(trace, f)
    /\ pc' = IF Len(trace') < Len(Statements) THEN Statements[Len(trace') + 1] ELSE "done"

\* the smoothing coefficient of the log-sum-exp wirelength
NLP_WN_CONJ_ALPHA == FP

initHyperParams ==
    /\ pc = "initHyperParams"
    /\ _alpha' = NLP_WN_CONJ_ALPHA
    /\ Return("initHyperParams")
    /\ UNCHANGED <<db, cellLoc, solves, build, randState, _numCells, _scale, _boundary, _totalCellArea,
                   _defaultSymAxis, _pl, grads, ops, tasks, objs, _taskflow, run>>

\* sqrt(100 / totalCellArea), the division by zero giving +inf
ScaleOf(area) == IF area = 0 THEN Inf ELSE Isqrt((100 * FP * FP) \div area)

\* the boundary of a database with a boundary constraint
ConstraintBoundary(scale) ==
    [xLo |-> IMul(BoundaryConstraint.xLo, scale), yLo |-> IMul(BoundaryConstraint.yLo, scale),
     xHi |-> IMul(BoundaryConstraint.xHi, scale), yHi |-> IMul(BoundaryConstraint.yHi, scale)]

\* the rough boundary of aspect ratio 0.85 around a total cell area of 100
RoughBoundary ==
    LET tolerentArea == (100 * (FP + MaxWhiteSpace))
        xHi == Isqrt(((tolerentArea * 85) \div 100) * FP)
        yHi == (tolerentArea * FP) \div xHi
    IN  [xLo |-> 0, yLo |-> 0, xHi |-> xHi, yHi |-> yHi]

ScaledCellArea(d, scale) ==
    SumSeq([c \in 1..d.numCells |->
              RMul(IMul(XLen(CellBBox(c - 1)), scale), IMul(YLen(CellBBox(c - 1)), scale))])

initBoundaryParams ==
    /\ pc = "initBoundaryParams"
    /\ _scale' = ScaleOf(TotalCellArea(db))
    /\ _boundary' = IF db.boundarySet THEN ConstraintBoundary(_scale') ELSE RoughBoundary
    /\ _totalCellArea' = ScaledCellArea(db, _scale')
    /\ _defaultSymAxis' = RHalf(RAdd(_boundary'.xLo, _boundary'.xHi))
    /\ Return("initBoundaryParams")
    /\ UNCHANGED <<db, cellLoc, solves, build, randState, _numCells, _alpha, _pl, grads, ops, tasks,
                   objs, _taskflow, run>>

\* v.resize(size): the coefficients are kept when the size is the one v has
Resize(v, size) == IF DOMAIN v = 0..(size - 1) THEN v ELSE Resized(size)

\* the size initVariables computes for the variable vector
ProblemSize(d) == d.numCells * 2 + d.numSymGroups

\* Without MULTI_SYM_GROUP initVariables() stores the default axis in
\* (*_sym)(0).  With no symmetry group that entry lies past the end of _pl:
\* the store is undefined, and either trips Eigen's index assertion or lands
\* outside the vector.
initVariables ==
    /\ pc = "initVariables"
    /\ _numCells' = db.numCells
    /\ LET sized == Resize(_pl, ProblemSize(db))
           pos == 2 * db.numCells
       IN  IF build.MULTI_SYM_GROUP
           THEN _pl' = sized /\ Return("initVariables")
           ELSE IF InBounds(sized, pos)
                THEN /\ _pl' = [sized EXCEPT ![pos] = _defaultSymAxis]
                     /\ Return("initVariables")
                ELSE /\ _pl' = sized
                     /\ \/ Return("initVariables")
                        \/ pc' = "aborted" /\ trace' = trace
    /\ UNCHANGED <<db, cellLoc, solves, build, randState, _alpha, _scale, _boundary, _totalCellArea,
                   _defaultSymAxis, grads, ops, tasks, objs, _taskflow, run>>

\* GradSize without the symmetry axes
GradSize_CellsOnly(d) == d.numCells * 2

\* the size initFirstOrderGrad computes for the gradients
GradSize(d) == d.numCells * 2 + d.numSymGroups

initFirstOrderGrad ==
    /\ pc = "initFirstOrderGrad"
    /\ _numCells' = db.numCells
    /\ grads' = [b \in Buffers |-> Resize(grads[b], GradSize(db))]
    /\ Return("initFirstOrderGrad")
    /\ UNCHANGED <<db, cellLoc, solves, build, randState, _alpha, _scale, _boundary, _totalCellArea,
                   _defaultSymAxis, _pl, ops, tasks, objs, _taskflow, run>>

\* The loop of initRandomPlacement over the cells: after cell idx-1 the
\* generator is in state s and the vector is v.
RECURSIVE PlaceCells(_, _, _)
PlaceCells(idx, s, v) ==
    IF idx >= db.numCells THEN [rand |-> s, pl |-> v]
    ELSE LET xRatio == _boundary.xHi \div db.numCells
             yRatio == _boundary.yHi \div db.numCells
             s1 == RandNext(s)
             s2 == RandNext(s1)
             x == (RandValue(s1) % db.numCells) * xRatio
             y == (RandValue(s2) % db.numCells) * yRatio
         IN  PlaceCells(idx + 1, s2,
                        [v EXCEPT ![PlxPos(idx)] = x, ![PlyPos(idx)] = y])

\* the loop over the symmetry groups stopping after the first group
PlaceAxes_FirstOnly(v) ==
    [p \in DOMAIN v |->
        IF db.numSymGroups > 0 /\ p = SymPos(0) THEN _defaultSymAxis ELSE v[p]]

\* the loop of initRandomPlacement over the symmetry groups
PlaceAxes(v) ==
    [p \in DOMAIN v |->
        IF \E idx \in 0..(db.numSymGroups - 1) : p = SymPos(idx)
        THEN _defaultSymAxis ELSE v[p]]

initRandomPlacement ==
    /\ pc = "initRandomPlacement"
    /\ LET placed == PlaceCells(0, Srand(6), _pl)
       IN  /\ randState' = placed.rand
           /\ _pl' = PlaceAxes(placed.pl)
    /\ Return("initRandomPlacement")
    /\ UNCHANGED <<db, cellLoc, solves, build, _numCells, _alpha, _scale, _boundary, _totalCellArea,
                   _defaultSymAxis, grads, ops, tasks, objs, _taskflow, run>>


\* -------------------------------------------------------- initOperators
calculatePinOffset(pinIdx) ==
    [x |-> IMul(PinMidLoc(pinIdx).x, _scale) - IMul(CellBBox(PinCell(pinIdx)).xLo, _scale),
     y |-> IMul(PinMidLoc(pinIdx).y, _scale) - IMul(CellBBox(PinCell(pinIdx)).yLo, _scale)]

HpwlOp(netIdx) ==
    [net |-> netIdx, weight |-> NetWeight(netIdx),
     pins |-> [k \in 1..Len(NetPins(db, netIdx)) |->
                 LET pinIdx == NetPins(db, netIdx)[k]
                 IN  [cell |-> PinCell(pinIdx), x |-> calculatePinOffset(pinIdx).x,
                      y |-> calculatePinOffset(pinIdx).y]]]

OvlOp(cellIdxI, cellIdxJ) ==
    [cellI |-> cellIdxI,
     wI |-> IMul(XLen(CellBBox(cellIdxI)), _scale), hI |-> IMul(YLen(CellBBox(cellIdxI)), _scale),
     cellJ |-> cellIdxJ,
     wJ |-> IMul(XLen(CellBBox(cellIdxJ)), _scale), hJ |-> IMul(YLen(CellBBox(cellIdxJ)), _scale)]

OobOp(cellIdx) ==
    [cell |-> cellIdx,
     w |-> IMul(XLen(CellBBox(cellIdx)), _scale), h |-> IMul(YLen(CellBBox(cellIdx)), _scale)]

AsymOp(symGrpIdx) ==
    [symGrp |-> symGrpIdx,
     pairs |-> [k \in 1..Len(SymPairs(db, symGrpIdx)) |->
                  LET sp == SymPairs(db, symGrpIdx)[k]
                  IN  [cellI |-> sp.first, cellJ |-> sp.second,
                       w |-> IMul(XLen(CellBBox(sp.first)), _scale)]],
     selfs |-> [k \in 1..Len(SelfSyms(db, symGrpIdx)) |->
                  LET c == SelfSyms(db, symGrpIdx)[k]
                  IN  [cell |-> c, w |-> IMul(XLen(CellBBox(c)), _scale)]]]

CosOp(segIdx) ==
    LET seg == SegList(db)[segIdx + 1]
    IN  [seg |-> segIdx,
         sCell |-> PinCell(seg.sPinIdx), sOff |-> calculatePinOffset(seg.sPinIdx),
         mCell |-> PinCell(seg.midPinIdxA), mOffA |-> calculatePinOffset(seg.midPinIdxA),
         mOffB |-> calculatePinOffset(seg.midPinIdxB),
         tCell |-> PinCell(seg.tPinIdx), tOff |-> calculatePinOffset(seg.tPinIdx)]

\* the inner loop of the overlap operators: cellIdxJ from j up
RECURSIVE OvlRow(_, _)
OvlRow(cellIdxI, cellIdxJ) ==
    IF cellIdxJ >= db.numCells THEN <<>>
    ELSE <<OvlOp(cellIdxI, cellIdxJ)>> \o OvlRow(cellIdxI, cellIdxJ + 1)

\* OvlRows with the inner loop starting at cellIdxI itself
RECURSIVE OvlRows_FromSelf(_)
OvlRows_FromSelf(cellIdxI) ==
    IF cellIdxI >= db.numCells THEN <<>>
    ELSE OvlRow(cellIdxI, cellIdxI) \o OvlRows_FromSelf(cellIdxI + 1)

\* the outer loop of the overlap operators: cellIdxI from i up
RECURSIVE OvlRows(_)
OvlRows(cellIdxI) ==
    IF cellIdxI >= db.numCells THEN <<>>
    ELSE OvlRow(cellIdxI, cellIdxI + 1) \o OvlRows(cellIdxI + 1)

\* the operators one initOperators() appends to each collection
NewOps ==
    [hpwl |-> [k \in 1..db.numNets |-> HpwlOp(k - 1)],
     ovl  |-> OvlRows(0),
     oob  |-> [k \in 1..db.numCells |-> OobOp(k - 1)],
     asym |-> [k \in 1..db.numSymGroups |-> AsymOp(k - 1)],
     cos  |-> [k \in 1..Len(SegList(db)) |-> CosOp(k - 1)]]

initOperators ==
    /\ pc = "initOperators"
    /\ ops' = [f \in FamilySet |-> ops[f] \o NewOps[f]]
    /\ Return("initOperators")
    /\ UNCHANGED <<db, cellLoc, solves, build, randState, _numCells, _alpha, _scale, _boundary,
                   _totalCellArea, _defaultSymAxis, _pl, grads, tasks, objs, _taskflow, run>>


\* ------------------------------------------------- the operators' values
\* getVarFunc of initOperators, on the variable vector v
getVarFunc(v, cellIdx, orient) == v[plIdx(cellIdx, orient)]

Min2(a, b) == IF a < b THEN a ELSE b
SetMax(S) == CHOOSE m \in S : \A x \in S : x <= m
SetMin(S) == CHOOSE m \in S : \A x \in S : m <= x

RECURSIVE SumSet(_, _)
\* the sum of val[x] over the x in S
SumSet(S, val) ==
    IF S = {} THEN 0
    ELSE LET x == CHOOSE y \in S : TRUE IN val[x] + SumSet(S \ {x}, val)

\* wirelength of a net: the half perimeter of its pins
EvaluateHpwl(op, v) ==
    IF Len(op.pins) = 0 THEN 0
    ELSE LET xs == {getVarFunc(v, op.pins[k].cell, "HORIZONTAL") + op.pins[k].x : k \in 1..Len(op.pins)}
             ys == {getVarFunc(v, op.pins[k].cell, "VERTICAL") + op.pins[k].y : k \in 1..Len(op.pins)}
         IN  op.weight * ((SetMax(xs) - SetMin(xs)) + (SetMax(ys) - SetMin(ys)))

\* overlap of a cell pair: the area the two rectangles share
EvaluateOvl(op, v) ==
    LET xI == getVarFunc(v, op.cellI, "HORIZONTAL")
        yI == getVarFunc(v, op.cellI, "VERTICAL")
        xJ == getVarFunc(v, op.cellJ, "HORIZONTAL")
        yJ == getVarFunc(v, op.cellJ, "VERTICAL")
        ox == Max2(0, Min2(xI + op.wI, xJ + op.wJ) - Max2(xI, xJ))
        oy == Max2(0, Min2(yI + op.hI, yJ + op.hJ) - Max2(yI, yJ))
    IN  (ox * oy) \div FP

\* out of boundary: how far the cell sticks out of _boundary
EvaluateOob(op, v) ==
    LET x == getVarFunc(v, op.cell, "HORIZONTAL")
        y == getVarFunc(v, op.cell, "VERTICAL")
    IN  Max2(0, _boundary.xLo - x) + Max2(0, x + op.w - _boundary.xHi)
        + Max2(0, _boundary.yLo - y) + Max2(0, y + op.h - _boundary.yHi)

\* asymmetry of a group about its axis variable
EvaluateAsym(op, v) ==
    LET axis == getVarFunc(v, op.symGrp, "NONE")
    IN  SumSeq([k \in 1..Len(op.pairs) |->
                  Abs(getVarFunc(v, op.pairs[k].cellI, "HORIZONTAL")
                      + getVarFunc(v, op.pairs[k].cellJ, "HORIZONTAL")
                      + op.pairs[k].w - 2 * axis)
                  + Abs(getVarFunc(v, op.pairs[k].cellI, "VERTICAL")
                        - getVarFunc(v, op.pairs[k].cellJ, "VERTICAL"))])
        + SumSeq([k \in 1..Len(op.selfs) |->
                  Abs(2 * getVarFunc(v, op.selfs[k].cell, "HORIZONTAL") + op.selfs[k].w - 2 * axis)])

\* signal path: how far the two segments are from collinear
EvaluateCos(op, v) ==
    LET sx == getVarFunc(v, op.sCell, "HORIZONTAL") + op.sOff.x
        sy == getVarFunc(v, op.sCell, "VERTICAL") + op.sOff.y
        ax == getVarFunc(v, op.mCell, "HORIZONTAL") + op.mOffA.x
        ay == getVarFunc(v, op.mCell, "VERTICAL") + op.mOffA.y
        bx == getVarFunc(v, op.mCell, "HORIZONTAL") + op.mOffB.x
        by == getVarFunc(v, op.mCell, "VERTICAL") + op.mOffB.y
        tx == getVarFunc(v, op.tCell, "HORIZONTAL") + op.tOff.x
        ty == getVarFunc(v, op.tCell, "VERTICAL") + op.tOff.y
    IN  Abs((ax - sx) * (ty - by) - (ay - sy) * (tx - bx)) \div FP

\* placement_differentiable_traits<op>::evaluate(op), on the vector v
Evaluate(f, op, v) ==
    CASE f = "hpwl" -> EvaluateHpwl(op, v)
      [] f = "ovl"  -> EvaluateOvl(op, v)
      [] f = "oob"  -> EvaluateOob(op, v)
      [] f = "asym" -> EvaluateAsym(op, v)
      [] f = "cos"  -> EvaluateCos(op, v)

XY(c) == {<<c, "HORIZONTAL">>, <<c, "VERTICAL">>}

\* the variables an operator reads: <<index, orient>> pairs
OpVars(f, op) ==
    CASE f = "hpwl" -> UNION {XY(op.pins[k].cell) : k \in 1..Len(op.pins)}
      [] f = "ovl"  -> XY(op.cellI) \cup XY(op.cellJ)
      [] f = "oob"  -> XY(op.cell)
      [] f = "asym" -> UNION {XY(op.pairs[k].cellI) \cup XY(op.pairs[k].cellJ) : k \in 1..Len(op.pairs)}
                       \cup {<<op.selfs[k].cell, "HORIZONTAL">> : k \in 1..Len(op.selfs)}
                       \cup {<<op.symGrp, "NONE">>}
      [] f = "cos"  -> XY(op.sCell) \cup XY(op.mCell) \cup XY(op.tCell)

\* the partials of an operator: per variable, the one-sided difference
\* quotient of its value over a step of 1.0
Partials(f, op, v) ==
    [var \in OpVars(f, op) |->
        Evaluate(f, op, [v EXCEPT ![plIdx(var[1], var[2])] = @ + FP]) - Evaluate(f, op, v)]


\* ------------------------------------------------------- constructTasks
\* constructObjectiveCalculationTasks: one task per operator now in the collection
constructObjectiveCalculationTasks(t) ==
    [t EXCEPT !.eva = [f \in FamilySet |->
        t.eva[f] \o [k \in 1..Len(ops[f]) |-> [op |-> k, obj |-> Garbage]]]]

SingleTasks(t, names) == [t EXCEPT !.single = @ \cup names]

constructSumObjTasks(t) ==
    SingleTasks(t, {"_sumObjHpwlTask", "_sumObjOvlTask", "_sumObjOobTask",
                    "_sumObjAsymTask", "_sumObjCosTask", "_sumObjAllTask"})

constructWrapObjTask(t) ==
    SingleTasks(t, {"_wrapObjHpwlTask", "_wrapObjOvlTask", "_wrapObjOobTask",
                    "_wrapObjAsymTask", "_wrapObjCosTask", "_wrapObjAllTask"})

constructObjTasks(t) ==
    constructWrapObjTask(constructSumObjTasks(constructObjectiveCalculationTasks(t)))

constructStopConditionTask(t) == SingleTasks(t, {"_checkStopConditionTask"})

\* constructCalcPartialsTasks: one task per operator now in the collection
constructCalcPartialsTasks(t) ==
    [t EXCEPT !.calc = [f \in FamilySet |->
        t.calc[f] \o [k \in 1..Len(ops[f]) |-> [op |-> k, partials |-> <<>>]]]]

\* constructUpdatePartialsTasks with every task given the wirelength gradient
constructUpdatePartialsTasks_IntoHpwl(t) ==
    [t EXCEPT !.update = [f \in FamilySet |->
        t.update[f] \o [k \in 1..Len(t.calc[f]) |-> [calc |-> k, grad |-> "hpwl"]]]]

\* constructUpdatePartialsTasks: one task per calculate task now in the list
constructUpdatePartialsTasks(t) ==
    [t EXCEPT !.update = [f \in FamilySet |->
        t.update[f] \o [k \in 1..Len(t.calc[f]) |-> [calc |-> k, grad |-> f]]]]

constructClearGradTasks(t) ==
    SingleTasks(t, {"_clearGradTask", "_clearHpwlGradTask", "_clearOvlGradTask",
                    "_clearOobGradTask", "_clearAsymGradTask", "_clearCosGradTask"})

constructSumGradTask(t) == SingleTasks(t, {"_sumGradTask"})

constructWrapCalcGradTask(t) == SingleTasks(t, {"_wrapCalcGradTask"})

constructFirstOrderTasks(t) ==
    constructWrapCalcGradTask(constructSumGradTask(constructClearGradTasks(
        constructUpdatePartialsTasks(constructCalcPartialsTasks(t)))))

constructTasks ==
    /\ pc = "constructTasks"
    /\ tasks' = IF build.firstOrder
                THEN constructFirstOrderTasks(constructStopConditionTask(constructObjTasks(tasks)))
                ELSE constructStopConditionTask(constructObjTasks(tasks))
    /\ Return("constructTasks")
    /\ UNCHANGED <<db, cellLoc, solves, build, randState, _numCells, _alpha, _scale, _boundary,
                   _totalCellArea, _defaultSymAxis, _pl, grads, ops, objs, _taskflow, run>>

\* ------------------------------------------------------ the task bodies
TaskId(kind, f, idx) == [kind |-> kind, fam |-> f, idx |-> idx]

\* wrapObjTask with the sum run ahead of the evaluations
wrapObjTask_SumFirst(t, f) ==
    <<TaskId("sumObj", f, 0)>> \o [k \in 1..Len(t.eva[f]) |-> TaskId("eva", f, k)]

\* wrapObjTask with the sum run a second time
wrapObjTask_SumTwice(t, f) ==
    [k \in 1..Len(t.eva[f]) |-> TaskId("eva", f, k)]
    \o <<TaskId("sumObj", f, 0), TaskId("sumObj", f, 0)>>

\* the body of _wrapObj<f>Task: the tasks it runs, in order
wrapObjTask(t, f) ==
    [k \in 1..Len(t.eva[f]) |-> TaskId("eva", f, k)] \o <<TaskId("sumObj", f, 0)>>

\* the body of _wrapObjAllTask
wrapObjAllTask(t) ==
    wrapObjTask(t, "hpwl") \o wrapObjTask(t, "ovl") \o wrapObjTask(t, "oob")
    \o wrapObjTask(t, "asym") \o wrapObjTask(t, "cos") \o <<TaskId("sumObj", "all", 0)>>

\* calcGradOf with the update loop ahead of the calculate loop
calcGradOf_UpdateFirst(t, f) ==
    [k \in 1..Len(t.update[f]) |-> TaskId("update", f, k)]
    \o [k \in 1..Len(t.calc[f]) |-> TaskId("calc", f, k)]

\* the two loops of _wrapCalcGradTask over one family
calcGradOf(t, f) ==
    [k \in 1..Len(t.calc[f]) |-> TaskId("calc", f, k)]
    \o [k \in 1..Len(t.update[f]) |-> TaskId("update", f, k)]

\* wrapCalcGradTask with the family gradients cleared after the updates
wrapCalcGradTask_ClearLate(t) ==
    <<TaskId("clear", "all", 0)>>
    \o calcGradOf(t, "hpwl") \o calcGradOf(t, "ovl") \o calcGradOf(t, "oob")
    \o calcGradOf(t, "asym") \o calcGradOf(t, "cos")
    \o <<TaskId("clear", "hpwl", 0), TaskId("clear", "ovl", 0), TaskId("clear", "oob", 0),
         TaskId("clear", "asym", 0), TaskId("clear", "cos", 0), TaskId("sumGrad", "all", 0)>>

\* the body of _wrapCalcGradTask
wrapCalcGradTask(t) ==
    <<TaskId("clear", "all", 0), TaskId("clear", "hpwl", 0), TaskId("clear", "ovl", 0),
      TaskId("clear", "oob", 0), TaskId("clear", "asym", 0), TaskId("clear", "cos", 0)>>
    \o calcGradOf(t, "hpwl") \o calcGradOf(t, "ovl") \o calcGradOf(t, "oob")
    \o calcGradOf(t, "asym") \o calcGradOf(t, "cos") \o <<TaskId("sumGrad", "all", 0)>>

Body(name, t) ==
    IF name = "_wrapObjAllTask" THEN wrapObjAllTask(t) ELSE wrapCalcGradTask(t)

\* The data the tasks work on: m.tasks, m.objs, m.grads.
\* EvaObjTask::run(): evaluate the operator, keep the value
EvaRun(m, f, k) ==
    [m EXCEPT !.tasks.eva[f][k].obj = Evaluate(f, ops[f][m.tasks.eva[f][k].op], _pl)]

\* SumObj adding to the total it finds, with no reset to zero
SumObj_NoReset(m, f) ==
    IF f = "all"
    THEN [m EXCEPT !.objs["all"] =
            @ + m.objs["hpwl"] + m.objs["ovl"] + m.objs["oob"] + m.objs["asym"] + m.objs["cos"]]
    ELSE [m EXCEPT !.objs[f] = @ + SumSeq([k \in 1..Len(m.tasks.eva[f]) |-> m.tasks.eva[f][k].obj])]

\* SumObj with the overlap total added a second time in place of the
\* out-of-boundary total
SumObj_OvlTwice(m, f) ==
    IF f = "all"
    THEN [m EXCEPT !.objs["all"] =
            0 + m.objs["hpwl"] + m.objs["ovl"] + m.objs["ovl"] + m.objs["asym"] + m.objs["cos"]]
    ELSE [m EXCEPT !.objs[f] = 0 + SumSeq([k \in 1..Len(m.tasks.eva[f]) |-> m.tasks.eva[f][k].obj])]

\* the summing lambdas of constructSumObjTasks
SumObj(m, f) ==
    IF f = "all"
    THEN [m EXCEPT !.objs["all"] =
            0 + m.objs["hpwl"] + m.objs["ovl"] + m.objs["oob"] + m.objs["asym"] + m.objs["cos"]]
    ELSE [m EXCEPT !.objs[f] = 0 + SumSeq([k \in 1..Len(m.tasks.eva[f]) |-> m.tasks.eva[f][k].obj])]

\* the lambdas of constructClearGradTasks: setZero()
ClearGrad(m, b) == [m EXCEPT !.grads[b] = [p \in DOMAIN @ |-> 0]]

\* CalculateOperatorPartialTask::run(): compute the operator's partials
CalcRun(m, f, k) ==
    [m EXCEPT !.tasks.calc[f][k].partials = Partials(f, ops[f][m.tasks.calc[f][k].op], _pl)]

\* UpdateGradientFromPartialTask::run(): add the partials of its calculate
\* task into its gradient, at the positions getIdxFunc gives
UpdateRun(m, f, k) ==
    LET u == m.tasks.update[f][k]
        partials == m.tasks.calc[f][u.calc].partials
    IN  [m EXCEPT !.grads[u.grad] =
            [p \in DOMAIN @ |->
                @[p] + SumSet({var \in DOMAIN partials : plIdx(var[1], var[2]) = p}, partials)]]

\* the lambda of constructSumGradTask
SumGrad(m) ==
    [m EXCEPT !.grads["all"] =
        [p \in DOMAIN m.grads["hpwl"] |->
            m.grads["hpwl"][p] + m.grads["ovl"][p] + m.grads["oob"][p]
            + m.grads["asym"][p] + m.grads["cos"][p]]]

RunTask(m, t) ==
    CASE t.kind = "eva"     -> EvaRun(m, t.fam, t.idx)
      [] t.kind = "sumObj"  -> SumObj(m, t.fam)
      [] t.kind = "clear"   -> ClearGrad(m, t.fam)
      [] t.kind = "calc"    -> CalcRun(m, t.fam, t.idx)
      [] t.kind = "update"  -> UpdateRun(m, t.fam, t.idx)
      [] t.kind = "sumGrad" -> SumGrad(m)

Memory == [tasks |-> tasks, objs |-> objs, grads |-> grads]

RECURSIVE RunBody(_, _)
\* the tasks of a body run one after the other on the data m
RunBody(m, body) ==
    IF body = <<>> THEN m ELSE RunBody(RunTask(m, Head(body)), Tail(body))

\* ------------------------------------------------------------ optimize()
Started(name) == [task |-> name, pos |-> 0, log |-> <<>>]

\* NlpGPlacerBase::optimize: _wrapObjAllTask.run() on the calling thread
optimizeBase ==
    /\ pc = "optimize"
    /\ ~build.firstOrder
    /\ run' = <<Started("_wrapObjAllTask")>>
    /\ pc' = "running"
    /\ UNCHANGED <<db, cellLoc, solves, build, trace, randState, _numCells, _alpha, _scale, _boundary,
                   _totalCellArea, _defaultSymAxis, _pl, grads, ops, tasks, objs, _taskflow>>

\* Registered with the gradient wrapper registered a second time
Registered_GradTwice(tf) == tf \o <<"_wrapObjAllTask", "_wrapCalcGradTask", "_wrapCalcGradTask">>

\* Registered without the gradient wrapper
Registered_ObjOnly(tf) == tf \o <<"_wrapObjAllTask">>

\* Registered without the objective wrapper
Registered_GradOnly(tf) == tf \o <<"_wrapCalcGradTask">>

\* the tasks regTask() adds to the taskflow
Registered(tf) == tf \o <<"_wrapObjAllTask", "_wrapCalcGradTask">>

\* NlpGPlacerFirstOrder::optimize: register the two wrappers, hand the
\* taskflow to an executor, wait
optimizeFirstOrder ==
    /\ pc = "optimize"
    /\ build.firstOrder
    /\ _taskflow' = Registered(_taskflow)
    /\ run' = [k \in 1..Len(_taskflow') |-> Started(_taskflow'[k])]
    /\ pc' = "running"
    /\ UNCHANGED <<db, cellLoc, solves, build, trace, randState, _numCells, _alpha, _scale, _boundary,
                   _totalCellArea, _defaultSymAxis, _pl, grads, ops, tasks, objs>>

Finished(r) == r.pos >= Len(Body(r.task, tasks))

\* one running wrapper runs the next task of its body
runTask(i) ==
    /\ pc = "running"
    /\ solves = 1
    /\ ~Finished(run[i])
    /\ LET t == Body(run[i].task, tasks)[run[i].pos + 1]
           m == RunTask(Memory, t)
       IN  /\ tasks' = m.tasks
           /\ objs' = m.objs
           /\ grads' = m.grads
           /\ run' = [run EXCEPT ![i].pos = @ + 1, ![i].log = Append(@, t)]
    /\ UNCHANGED <<db, cellLoc, solves, build, pc, trace, randState, _numCells, _alpha, _scale, _boundary,
                   _totalCellArea, _defaultSymAxis, _pl, ops, _taskflow>>

\* optimizeReturn after a step along every variable
optimizeReturn_Moved ==
    /\ pc = "running"
    /\ \A i \in 1..Len(run) : Finished(run[i])
    /\ Return("optimize")
    /\ _pl' = [p \in DOMAIN _pl |-> _pl[p] + FP]
    /\ UNCHANGED <<db, cellLoc, solves, build, randState, _numCells, _alpha, _scale, _boundary,
                   _totalCellArea, _defaultSymAxis, grads, ops, tasks, objs, _taskflow, run>>

\* optimizeReturn with a wait() that does not return
optimizeReturn_Never ==
    /\ pc = "waiting"
    /\ UNCHANGED vars

\* run() has returned, or the executor's wait() has
optimizeReturn ==
    /\ pc = "running"
    /\ \A i \in 1..Len(run) : Finished(run[i])
    /\ Return("optimize")
    /\ UNCHANGED <<db, cellLoc, solves, build, randState, _numCells, _alpha, _scale, _boundary,
                   _totalCellArea, _defaultSymAxis, _pl, grads, ops, tasks, objs, _taskflow, run>>

\* ------------------------------------------------------------- writeOut()
\* The value the minimum search of writeOut starts from.  The source's 1e10
\* lies far above every coordinate a solve of the databases produces; so
\* does this value, the largest power of ten the model's integers hold.
MinStart == 1000000000

\* Database::parameters().layoutOffset()
LayoutOffset == 2

\* a / s of two reals
RDiv(a, s) ==
    IF ~IsFinite(a) \/ s = NaN \/ s = 0 THEN NaN
    ELSE IF s = Inf THEN 0
    ELSE (a \div s) * FP + ((a % s) * FP) \div s

\* ::klib::autoRound<LocType>: the integer nearest to a real
AutoRound(a) ==
    IF ~IsFinite(a) THEN Garbage
    ELSE IF a >= 0 THEN (a + FP \div 2) \div FP
    ELSE 0 - ((FP \div 2 - a) \div FP)

\* the first loop of writeOut: the least of the start value and the
\* coordinates at the positions P of v
MinCoord(v, P) == SetMin({MinStart} \cup {v[p] : p \in P})

\* ShiftedCoord without the minimum taken off
ShiftedCoord_NoMin(val, min, scale) == RAdd(RDiv(val, scale), LayoutOffset * FP)

\* (coordinate - minimum) / _scale + layoutOffset
ShiftedCoord(val, min, scale) == RAdd(RDiv(val - min, scale), LayoutOffset * FP)

\* the locations writeOut stores for the vector v and the scale
WrittenLocs(v, scale) ==
    LET minX == MinCoord(v, {PlxPos(c) : c \in 0..(db.numCells - 1)})
        minY == MinCoord(v, {PlyPos(c) : c \in 0..(db.numCells - 1)})
    IN  [c \in 0..(db.numCells - 1) |->
            [x |-> AutoRound(ShiftedCoord(v[PlxPos(c)], minX, scale)) - CellBBox(c).xLo,
             y |-> AutoRound(ShiftedCoord(v[PlyPos(c)], minY, scale)) - CellBBox(c).yLo]]

\* writeOut(), which solve() does not call, called on a solved placer
writeOut ==
    /\ pc = "done"
    /\ cellLoc' = WrittenLocs(_pl, _scale)
    /\ UNCHANGED <<db, solves, build, pc, trace, randState, _numCells, _alpha, _scale,
                   _boundary, _totalCellArea, _defaultSymAxis, _pl, grads, ops, tasks, objs,
                   _taskflow, run>>

\* ------------------------------------------------------- specification
\* the location of a cell no setXLoc/setYLoc has stored into
Unset == [x |-> Garbage, y |-> Garbage]

Builds == [MULTI_SYM_GROUP : BOOLEAN, firstOrder : BOOLEAN]

Init ==
    /\ db \in Databases
    /\ cellLoc = [c \in 0..(db.numCells - 1) |-> Unset]
    /\ solves = 1
    /\ build \in Builds
    /\ pc = Head(Statements)
    /\ trace = <<>>
    /\ randState = 0
    /\ _numCells = Garbage
    /\ _alpha = Garbage
    /\ _scale = FP \div 100
    /\ _boundary = [xLo |-> Garbage, yLo |-> Garbage, xHi |-> Garbage, yHi |-> Garbage]
    /\ _totalCellArea = 0
    /\ _defaultSymAxis = 0
    /\ _pl = Resized(0)
    /\ grads = [b \in Buffers |-> Resized(0)]
    /\ ops = [f \in FamilySet |-> <<>>]
    /\ tasks = [eva |-> [f \in FamilySet |-> <<>>], calc |-> [f \in FamilySet |-> <<>>],
                update |-> [f \in FamilySet |-> <<>>], single |-> {}]
    /\ objs = [b \in Buffers |-> 0]
    /\ _taskflow = <<>>
    /\ run = <<>>

Next ==
    \/ initHyperParams
    \/ initBoundaryParams
    \/ initVariables
    \/ initFirstOrderGrad
    \/ initRandomPlacement
    \/ initOperators
    \/ constructTasks
    \/ optimizeBase
    \/ optimizeFirstOrder
    \/ \E i \in 1..Len(run) : runTask(i)
    \/ optimizeReturn

Spec == Init /\ [][Next]_vars

\* the solve with the statements of solve() and the executor's threads kept
\* running
FairSpec == Spec /\ WF_vars(Next)

\* the solve, and writeOut() called once solve() has returned
WriteOutNext ==
    \/ Next
    \/ writeOut

WriteOutSpec == Init /\ [][WriteOutNext]_vars

\* ------------------------------------------- the placer in a client's hands
\* solve() called again on a placer whose solve() has returned
solveAgain ==
    /\ pc = "done"
    /\ solves < MaxSolves
    /\ solves' = solves + 1
    /\ pc' = Head(Statements)
    /\ trace' = <<>>
    /\ run' = <<>>
    /\ UNCHANGED <<db, cellLoc, build, randState, _numCells, _alpha, _scale, _boundary,
                   _totalCellArea, _defaultSymAxis, _pl, grads, ops, tasks, objs, _taskflow>>

\* A wrapper task in the optimize() of a repeated solve().  The tasks of the
\* earlier solves reach their operators and partials through references
\* into storage that the appends of the later initOperators() and
\* constructTasks() have released, and the taskflow holds every wrapper once
\* per solve, so that the same wrapper runs on several threads: undefined.
\* The outcomes kept: the program stops, or the wrapper runs to its end on
\* the moved copies of the operators, the wrappers one after the other.
runStale(i) ==
    /\ pc = "running"
    /\ solves > 1
    /\ ~Finished(run[i])
    /\ \/ LET body == Body(run[i].task, tasks)
              m == RunBody(Memory, body)
          IN  /\ tasks' = m.tasks
              /\ objs' = m.objs
              /\ grads' = m.grads
              /\ run' = [run EXCEPT ![i].pos = Len(body), ![i].log = body]
              /\ pc' = pc
       \/ /\ \E f \in FamilySet : ops[f] # <<>>
          /\ pc' = "aborted"
          /\ UNCHANGED <<tasks, objs, grads, run>>
    /\ UNCHANGED <<db, cellLoc, solves, build, trace, randState, _numCells, _alpha, _scale,
                   _boundary, _totalCellArea, _defaultSymAxis, _pl, ops, _taskflow>>

ClientNext ==
    \/ WriteOutNext
    \/ solveAgain
    \/ \E i \in 1..Len(run) : runStale(i)

ClientSpec == Init /\ [][ClientNext]_vars


\* ============================================================== claims
Size(v) == Cardinality(DOMAIN v)

\* task a is in the log ahead of position q
Before(log, a, q) == \E p \in 1..(q - 1) : log[p] = a

ObjPass(i) == run[i].task = "_wrapObjAllTask"
GradPass(i) == run[i].task = "_wrapCalcGradTask"

\* the gradient an update task adds into
Target(t) == tasks.update[t.fam][t.idx].grad

\* task t of a gradient pass writes gradient b
WritesInto(t, b) ==
    \/ t.kind = "update" /\ Target(t) = b
    \/ t.kind = "sumGrad" /\ b = "all"

\* what the partials of operator op of family f add at position p
Scattered(f, op, p) ==
    LET partials == Partials(f, op, _pl)
    IN  SumSet({var \in DOMAIN partials : plIdx(var[1], var[2]) = p}, partials)

(* C1: once an objective pass has run to its end, every family total is    *)
(* the sum of the values its evaluation tasks produce on the current       *)
(* variable vector, and _obj is the sum of the five family totals.         *)
C1_ObjectiveTotals ==
    \A i \in 1..Len(run) : (ObjPass(i) /\ Finished(run[i])) =>
        /\ \A f \in FamilySet :
              /\ \A k \in 1..Len(tasks.eva[f]) :
                    tasks.eva[f][k].obj = Evaluate(f, ops[f][tasks.eva[f][k].op], _pl)
              /\ objs[f] = SumSeq([k \in 1..Len(tasks.eva[f]) |->
                                     Evaluate(f, ops[f][tasks.eva[f][k].op], _pl)])
        /\ objs["all"] = objs["hpwl"] + objs["ovl"] + objs["oob"] + objs["asym"] + objs["cos"]

C1_Witness ==
    \E i \in 1..Len(run) :
        /\ ObjPass(i) /\ Finished(run[i])
        /\ Len(tasks.eva["oob"]) >= 2
        /\ objs["hpwl"] > 0 /\ objs["oob"] > 0 /\ objs["asym"] > 0
        /\ objs["all"] > objs["hpwl"]

(* C2: in an objective pass the sum task of a family runs only after every *)
(* evaluation task of that family has run in the pass, and _sumObjAllTask  *)
(* only after the five family sum tasks.                                   *)
C2_SumAfterEvaluations ==
    \A i \in 1..Len(run) : ObjPass(i) =>
        \A q \in 1..Len(run[i].log) :
            LET t == run[i].log[q]
            IN  t.kind = "sumObj" =>
                    IF t.fam = "all"
                    THEN \A f \in FamilySet : Before(run[i].log, TaskId("sumObj", f, 0), q)
                    ELSE \A k \in 1..Len(tasks.eva[t.fam]) :
                            Before(run[i].log, TaskId("eva", t.fam, k), q)

C2_Witness ==
    \E i \in 1..Len(run) :
        /\ ObjPass(i) /\ Finished(run[i])
        /\ Len(tasks.eva["oob"]) >= 2 /\ Len(tasks.eva["asym"]) >= 2
        /\ run[i].log[Len(run[i].log)] = TaskId("sumObj", "all", 0)

(* C3: in a gradient pass the clear task of a gradient has run before any  *)
(* task writes into that gradient, and no clear task of a gradient runs    *)
(* once something was accumulated into it, so none runs between an         *)
(* accumulation and the gradient sum.                                      *)
C3_ClearBeforeUpdate ==
    \A i \in 1..Len(run) : GradPass(i) =>
        \A q \in 1..Len(run[i].log) :
            LET t == run[i].log[q]
            IN  /\ t.kind = "update" => Before(run[i].log, TaskId("clear", Target(t), 0), q)
                /\ t.kind = "sumGrad" => Before(run[i].log, TaskId("clear", "all", 0), q)
                /\ t.kind = "clear" =>
                      \A p \in 1..(q - 1) : ~WritesInto(run[i].log[p], t.fam)

C3_Witness ==
    \E i \in 1..Len(run) :
        /\ GradPass(i) /\ Finished(run[i])
        /\ Len(tasks.update["oob"]) >= 2
        /\ \E p \in DOMAIN grads["oob"] : grads["oob"][p] # 0

(* C4: in a gradient pass an update task runs only after the calculate     *)
(* task whose partials it reads, the gradient sum only after every update  *)
(* task of every family; at the end of the pass every family gradient      *)
(* holds the accumulated partials of the family and _grad their sum.       *)
C4_UpdateAfterCalcSumLast ==
    \A i \in 1..Len(run) : GradPass(i) =>
        /\ \A q \in 1..Len(run[i].log) :
              LET t == run[i].log[q]
              IN  /\ t.kind = "update" =>
                        Before(run[i].log,
                               TaskId("calc", t.fam, tasks.update[t.fam][t.idx].calc), q)
                  /\ t.kind = "sumGrad" =>
                        \A f \in FamilySet : \A k \in 1..Len(tasks.update[f]) :
                            Before(run[i].log, TaskId("update", f, k), q)
        /\ Finished(run[i]) =>
              /\ \A f \in FamilySet : \A p \in DOMAIN grads[f] :
                    grads[f][p] = SumSeq([k \in 1..Len(tasks.calc[f]) |->
                                            Scattered(f, ops[f][tasks.calc[f][k].op], p)])
              /\ \A p \in DOMAIN grads["all"] :
                    grads["all"][p] = grads["hpwl"][p] + grads["ovl"][p] + grads["oob"][p]
                                      + grads["asym"][p] + grads["cos"][p]

C4_Witness ==
    \E i \in 1..Len(run) :
        /\ GradPass(i) /\ Finished(run[i])
        /\ Len(tasks.update["asym"]) >= 2
        /\ \E p \in DOMAIN grads["all"] : grads["all"][p] # 0 /\ grads["all"][p] # grads["asym"][p]

\* the gradient of the objective at the vector v: a function of the
\* operators and the vector alone
GradientAt(v) ==
    [p \in DOMAIN v |->
        SumSeq([n \in 1..Len(Families) |->
                  SumSeq([k \in 1..Len(ops[Families[n]]) |->
                            LET partials == Partials(Families[n], ops[Families[n]][k], v)
                            IN  SumSet({var \in DOMAIN partials : plIdx(var[1], var[2]) = p},
                                       partials)])])]

(* C5: whatever order the executor runs the two registered wrapper tasks   *)
(* in, the first-order optimize() ends with _grad equal to the gradient    *)
(* at the variable vector.                                                 *)
C5_GradientOrderFree ==
    (build.firstOrder /\ pc = "done") => grads["all"] = GradientAt(_pl)

C5_Witness ==
    /\ build.firstOrder /\ pc = "done"
    /\ Len(run) = 2
    /\ \E p \in DOMAIN grads["all"] : grads["all"][p] > 0
    /\ \E p \in DOMAIN grads["all"] : grads["all"][p] < 0

\* the tasks as constructTasks left them, the objectives as constructed
AsConstructed ==
    [tasks |-> [tasks EXCEPT
                  !.eva = [f \in FamilySet |-> [k \in 1..Len(@[f]) |-> [@[f][k] EXCEPT !.obj = Garbage]]],
                  !.calc = [f \in FamilySet |-> [k \in 1..Len(@[f]) |-> [@[f][k] EXCEPT !.partials = <<>>]]]],
     objs |-> [b \in Buffers |-> 0],
     grads |-> grads]

(* C6: the base optimize(), which calls _wrapObjAllTask.run(), and the     *)
(* first-order optimize(), which runs it through the executor, both end    *)
(* with the objective and the five family totals of the serial run of the  *)
(* objective tasks on the vector and the operators, so with equal ones.    *)
C6_SerialEqualsExecutor ==
    pc = "done" =>
        objs = RunBody(AsConstructed, wrapObjAllTask(tasks)).objs

C6_Witness ==
    /\ build.firstOrder /\ pc = "done"
    /\ objs["all"] > 0 /\ objs["hpwl"] > 0 /\ objs["asym"] > 0
    /\ objs = RunBody(AsConstructed, wrapObjAllTask(tasks)).objs

(* C7: from the return of the first-order initProblem() on, _pl, _grad and *)
(* the five family gradients all have the length                           *)
(* 2 * numCells + numSymGroups.                                            *)
C7_GradientLengths ==
    (build.firstOrder /\ Returned("initFirstOrderGrad")) =>
        /\ DOMAIN _pl = 0..(2 * db.numCells + db.numSymGroups - 1)
        /\ \A b \in Buffers : DOMAIN grads[b] = DOMAIN _pl

C7_Witness ==
    /\ build.firstOrder /\ pc = "done"
    /\ db.numCells = 2 /\ db.numSymGroups = 2
    /\ Size(grads["all"]) = 6 /\ Size(_pl) = 6

CellEntities == {<<c, o>> : c \in 0..(db.numCells - 1), o \in {"HORIZONTAL", "VERTICAL"}}
GroupEntities == {<<g, "NONE">> : g \in 0..(db.numSymGroups - 1)}

\* plIdx maps the entities E one-to-one onto the positions P
Bijective(E, P) ==
    /\ \A e \in E : plIdx(e[1], e[2]) \in P
    /\ \A e1, e2 \in E : plIdx(e1[1], e1[2]) = plIdx(e2[1], e2[2]) => e1 = e2
    /\ \A q \in P : \E e \in E : plIdx(e[1], e[2]) = q

(* C8 as claimed: once the counts are set, plIdx is a bijection between    *)
(* the cell coordinates together with the symmetry groups and the          *)
(* positions 0 .. 2 * numCells + numSymGroups - 1.                         *)
C8_Original ==
    Returned("initVariables") =>
        Bijective(CellEntities \cup GroupEntities, 0..(2 * db.numCells + db.numSymGroups - 1))

(* C8 amended: once the counts are set, plIdx maps the x of cell c to c    *)
(* and its y to numCells + c, a bijection between the cell coordinates and *)
(* 0 .. 2 * numCells - 1; with MULTI_SYM_GROUP it maps group g to          *)
(* 2 * numCells + g and is a bijection onto all positions; without, every  *)
(* group maps to the one position 2 * numCells, a bijection onto all       *)
(* positions only with at most one group.  The positions depend on the     *)
(* database's counts alone, so never change.                               *)
C8_IndexMap ==
    Returned("initVariables") =>
        /\ \A c \in 0..(db.numCells - 1) :
              plIdx(c, "HORIZONTAL") = c /\ plIdx(c, "VERTICAL") = db.numCells + c
        /\ Bijective(CellEntities, 0..(2 * db.numCells - 1))
        /\ \A g \in 0..(db.numSymGroups - 1) :
              plIdx(g, "NONE") = IF build.MULTI_SYM_GROUP THEN 2 * db.numCells + g
                                 ELSE 2 * db.numCells
        /\ (build.MULTI_SYM_GROUP \/ db.numSymGroups <= 1) =>
              Bijective(CellEntities \cup GroupEntities,
                        0..(2 * db.numCells + db.numSymGroups - 1))

C8_Witness ==
    /\ pc = "done"
    /\ ~build.MULTI_SYM_GROUP /\ db.numSymGroups = 2 /\ db.numCells = 2
    /\ plIdx(0, "NONE") = 4 /\ plIdx(1, "NONE") = 4 /\ plIdx(1, "VERTICAL") = 3

CellPairs == {<<i, j>> \in (0..(db.numCells - 1)) \X (0..(db.numCells - 1)) : i < j}

(* C9: after initOperators of a solve the collections hold one wirelength  *)
(* operator per net, one overlap operator per cell pair i < j and no       *)
(* other, one out-of-boundary operator per cell, one asymmetry operator    *)
(* per symmetry group bound to the group's index, one signal-path operator *)
(* per segment, every family in index order.                               *)
C9_OneOperatorPerOccurrence ==
    Returned("initOperators") =>
        /\ Len(ops["hpwl"]) = db.numNets
        /\ \A k \in 1..Len(ops["hpwl"]) : ops["hpwl"][k].net = k - 1
        /\ Len(ops["ovl"]) = (db.numCells * (db.numCells - 1)) \div 2
        /\ {<<ops["ovl"][k].cellI, ops["ovl"][k].cellJ>> : k \in 1..Len(ops["ovl"])} = CellPairs
        /\ \A k, l \in 1..Len(ops["ovl"]) :
              k < l => \/ ops["ovl"][k].cellI < ops["ovl"][l].cellI
                       \/ /\ ops["ovl"][k].cellI = ops["ovl"][l].cellI
                          /\ ops["ovl"][k].cellJ < ops["ovl"][l].cellJ
        /\ Len(ops["oob"]) = db.numCells
        /\ \A k \in 1..Len(ops["oob"]) : ops["oob"][k].cell = k - 1
        /\ Len(ops["asym"]) = db.numSymGroups
        /\ \A k \in 1..Len(ops["asym"]) : ops["asym"][k].symGrp = k - 1
        /\ Len(ops["cos"]) = Len(SegList(db))
        /\ \A k \in 1..Len(ops["cos"]) :
              /\ ops["cos"][k].seg = k - 1
              /\ ops["cos"][k].sCell = PinCell(SegList(db)[k].sPinIdx)
              /\ ops["cos"][k].tCell = PinCell(SegList(db)[k].tPinIdx)

C9_Witness ==
    /\ Returned("initOperators")
    /\ db.numCells = 2 /\ db.numNets = 1 /\ db.numSymGroups = 2 /\ db.numSegs = 1
    /\ Len(ops["ovl"]) = 1 /\ ops["ovl"][1].cellI = 0 /\ ops["ovl"][1].cellJ = 1
    /\ Len(ops["asym"]) = 2 /\ Len(ops["cos"]) = 1

\* the phases of one solve, as the claim orders them
Phases ==
    <<"initHyperParams", "initBoundaryParams", "initVariables", "initRandomPlacement",
      "initOperators", "constructTasks", "optimize">>

\* the trace without the sizing of the gradients, which belongs to the
\* phase that sizes the variables
PhasesOf(tr) == SelectSeq(tr, LAMBDA f : f # "initFirstOrderGrad")

IsPrefix(a, b) == Len(a) <= Len(b) /\ \A k \in 1..Len(a) : a[k] = b[k]

(* C10: one solve() passes through the phases in the order hyperparameters,*)
(* boundary and scale, variables sized, initial placement, operators,      *)
(* task graph, evaluation, terminal, each starting when its predecessor    *)
(* has finished; every operator is constructed after the boundary and the  *)
(* scale were computed, from that scale.                                   *)
C10_PhaseOrder ==
    /\ IsPrefix(PhasesOf(trace), Phases)
    /\ pc = "done" => PhasesOf(trace) = Phases
    /\ pc = "running" => Len(PhasesOf(trace)) = Len(Phases) - 1
    /\ pc \in {"initFirstOrderGrad"} => PhasesOf(trace) = SubSeq(Phases, 1, 3)
    /\ pc \notin {"done", "running", "aborted", "initFirstOrderGrad"} =>
          pc = Phases[Len(PhasesOf(trace)) + 1]
    /\ (\E f \in FamilySet : ops[f] # <<>>) =>
          /\ Returned("initBoundaryParams")
          /\ _scale = ScaleOf(TotalCellArea(db))
          /\ \A k \in 1..Len(ops["oob"]) :
                ops["oob"][k].w = IMul(XLen(CellBBox(ops["oob"][k].cell)), ScaleOf(TotalCellArea(db)))
          /\ \A k \in 1..Len(ops["ovl"]) :
                ops["ovl"][k].wI = IMul(XLen(CellBBox(ops["ovl"][k].cellI)), ScaleOf(TotalCellArea(db)))

C10_Witness ==
    /\ pc = "done"
    /\ PhasesOf(trace) = Phases
    /\ Len(ops["oob"]) = 2 /\ Len(ops["ovl"]) = 1
    /\ _scale = ScaleOf(TotalCellArea(db))

Cells == 0..(db.numCells - 1)

(* C11 as claimed: when solve() has returned, the location of every cell   *)
(* in the database is the one the write-back step computes from the final  *)
(* variable vector.                                                        *)
C11_Original ==
    pc = "done" => \A c \in Cells : cellLoc[c] = WrittenLocs(_pl, _scale)[c]

\* the least x and the least y variable over the cells
LeastX == SetMin({_pl[PlxPos(c)] : c \in Cells})
LeastY == SetMin({_pl[PlyPos(c)] : c \in Cells})

\* writeOut has stored the locations of the cells
WrittenOut == pc = "done" /\ db.numCells >= 1 /\ \A c \in Cells : cellLoc[c] # Unset

(* C12: after writeOut on a solved problem with at least one cell, the     *)
(* written x of every cell plus the xLo of its bounding box is at least    *)
(* the layout offset, and is the layout offset for a cell whose x variable *)
(* is the least; the same for y.  The written value is the rounded         *)
(* (variable - minimum) / scale + layoutOffset less the low corner of the  *)
(* bounding box.                                                           *)
C12_WriteBackOffset ==
    WrittenOut =>
        \A c \in Cells :
            /\ cellLoc[c].x + CellBBox(c).xLo >= LayoutOffset
            /\ cellLoc[c].y + CellBBox(c).yLo >= LayoutOffset
            /\ _pl[PlxPos(c)] = LeastX => cellLoc[c].x + CellBBox(c).xLo = LayoutOffset
            /\ _pl[PlyPos(c)] = LeastY => cellLoc[c].y + CellBBox(c).yLo = LayoutOffset
            /\ cellLoc[c].x = AutoRound(RAdd(RDiv(_pl[PlxPos(c)] - LeastX, _scale),
                                             LayoutOffset * FP)) - CellBBox(c).xLo
            /\ cellLoc[c].y = AutoRound(RAdd(RDiv(_pl[PlyPos(c)] - LeastY, _scale),
                                             LayoutOffset * FP)) - CellBBox(c).yLo

C12_Witness ==
    /\ WrittenOut
    /\ db.numCells = 2
    /\ \E c \in Cells : cellLoc[c].x + CellBBox(c).xLo > LayoutOffset
    /\ \E c \in Cells : cellLoc[c].y + CellBBox(c).yLo = LayoutOffset

\* the vector v with cx added to the x and cy to the y of every cell
Shifted(v, cx, cy) ==
    [p \in DOMAIN v |->
        IF \E c \in Cells : p = PlxPos(c) THEN v[p] + cx
        ELSE IF \E c \in Cells : p = PlyPos(c) THEN v[p] + cy
        ELSE v[p]]

\* translations: small ones either way, and one past the start value of
\* writeOut's minimum search
Shifts == {0 - 3 * FP, 7 * FP, MinStart + MinStart \div 2}

(* C13 as claimed: for the variable vector of a solved placer and any      *)
(* constants cx, cy, writeOut writes the same locations for the vector and *)
(* for the vector with cx added to every cell's x and cy to every cell's y.*)
C13_Original ==
    (pc = "done" /\ db.numCells >= 1) =>
        \A cx, cy \in Shifts :
            WrittenLocs(Shifted(_pl, cx, cy), _scale) = WrittenLocs(_pl, _scale)

\* the running wrapper i runs the next task of its body in this step
Steps(i) == pc = "running" /\ Len(run') = Len(run) /\ run'[i].pos = run[i].pos + 1

\* the task the running wrapper i is about to run
NextTask(i) == Body(run[i].task, tasks)[run[i].pos + 1]

(* C14: in a gradient pass an update task of a family writes only that     *)
(* family's gradient: the other four family gradients, _grad, the          *)
(* objectives and the variable vector stay as they are; and only the clear *)
(* task of _grad and the gradient sum task change _grad.                   *)
C14_UpdateFrame ==
    [][\A i \in 1..Len(run) : Steps(i) =>
          /\ NextTask(i).kind = "update" =>
                /\ \A b \in Buffers \ {NextTask(i).fam} : grads'[b] = grads[b]
                /\ objs' = objs
                /\ _pl' = _pl
          /\ grads'["all"] # grads["all"] =>
                \/ NextTask(i).kind = "sumGrad"
                \/ NextTask(i).kind = "clear" /\ NextTask(i).fam = "all"]_vars

C14_Witness ==
    \E i \in 1..Len(run) :
        /\ GradPass(i) /\ run[i].pos >= 1
        /\ run[i].log[run[i].pos] = TaskId("update", "asym", 2)
        /\ \E p \in DOMAIN grads["asym"] : grads["asym"][p] # 0
        /\ \E p \in DOMAIN grads["hpwl"] : grads["hpwl"][p] # 0

(* C15: no task of an evaluation pass changes the variable vector: from    *)
(* the start of optimize() to its return _pl stays what it was, in the     *)
(* base and in the first-order placer.                                     *)
C15_VectorUntouched ==
    [][(pc = "optimize" \/ pc = "running") => _pl' = _pl]_vars

C15_Witness ==
    /\ pc = "done"
    /\ db.numCells = 2
    /\ \E p \in DOMAIN _pl : _pl[p] > 0
    /\ _pl = PlaceAxes(PlaceCells(0, Srand(6), _pl).pl)
    /\ objs["all"] > 0

(* C16: once the first-order optimize() has handed the taskflow to the     *)
(* executor, with the threads kept running every registered task runs to   *)
(* its end, the wait returns and solve() returns.                          *)
C16_RunsToCompletion ==
    (build.firstOrder /\ pc = "running")
        ~> (pc = "done" /\ Len(run) = Len(_taskflow) /\ \A i \in 1..Len(run) : Finished(run[i]))

C16_Witness ==
    /\ build.firstOrder /\ pc = "done"
    /\ Len(_taskflow) = 2 /\ Len(run) = 2
    /\ \A i \in 1..Len(run) : Finished(run[i]) /\ Len(run[i].log) >= 10

\* the cell ids just past the cell count, and the group ids just past the
\* group count
CellIdsPast == {db.numCells, db.numCells + 1}
GroupIdsPast == {db.numSymGroups, db.numSymGroups + 1}

(* C17 as claimed: the index map returns no position of the variable       *)
(* vector for a cell id or a symmetry-group id outside [0, count).         *)
C17_Original ==
    Returned("initVariables") =>
        /\ \A id \in CellIdsPast :
              /\ plIdx(id, "HORIZONTAL") \notin DOMAIN _pl
              /\ plIdx(id, "VERTICAL") \notin DOMAIN _pl
        /\ \A id \in GroupIdsPast : plIdx(id, "NONE") \notin DOMAIN _pl

(* C18 as claimed: with a database of total cell area zero the solve stops *)
(* in initBoundaryParams: that function does not return, no variable is    *)
(* sized, no operator is built and no evaluation runs.                     *)
C18_Original ==
    TotalCellArea(db) = 0 =>
        /\ ~Returned("initBoundaryParams")
        /\ ~Returned("initVariables")
        /\ ~Returned("initOperators")
        /\ pc \notin {"running", "done"}

\* the vector initRandomPlacement leaves, from the boundary and the database
PlacedVector == PlaceAxes(PlaceCells(0, Srand(6), Resized(ProblemSize(db))).pl)

\* every overlap and every out-of-boundary operator of the database is 0
\* at the vector v
OvlOobZeroAt(v) ==
    /\ \A k \in 1..Len(NewOps["ovl"]) : Evaluate("ovl", NewOps["ovl"][k], v) = 0
    /\ \A k \in 1..Len(NewOps["oob"]) : Evaluate("oob", NewOps["oob"][k], v) = 0

(* C19 as claimed: for a problem with no symmetry group and no signal-path *)
(* segment whose overlap and out-of-boundary operators are all 0 at the    *)
(* vector, the solve does not fail and ends with _obj equal to the         *)
(* wirelength total, the asymmetry and signal-path totals being 0.         *)
C19_Original ==
    (/\ db.numSymGroups = 0 /\ db.numSegs = 0 /\ db.numCells >= 1
     /\ Returned("initBoundaryParams") /\ _numCells = db.numCells
     /\ OvlOobZeroAt(PlacedVector)) =>
        /\ pc # "aborted"
        /\ pc = "done" =>
              /\ objs["all"] = objs["hpwl"]
              /\ objs["asym"] = 0
              /\ objs["cos"] = 0

\* the objective of the database's operators, one per occurrence, at v
ObjectiveAt(v) ==
    SumSeq([n \in 1..Len(Families) |->
              SumSeq([k \in 1..Len(NewOps[Families[n]]) |->
                        Evaluate(Families[n], NewOps[Families[n]][k], v)])])

(* C20 as claimed: after initOperators of every solve() on a placer, a     *)
(* repeated one included, each family holds one operator per occurrence in *)
(* the database; after constructTasks each evaluation-task list holds one  *)
(* task per operator; and the solve ends with the objective of the first.  *)
C20_Original ==
    /\ Returned("initOperators") =>
          \A f \in FamilySet : Len(ops[f]) = Len(NewOps[f])
    /\ Returned("constructTasks") =>
          \A f \in FamilySet : Len(tasks.eva[f]) = Len(ops[f])
    /\ pc = "done" => objs["all"] = ObjectiveAt(_pl)

Groups == 0..(db.numSymGroups - 1)

\* the multiples k * ratio with 0 <= k < numCells
Multiples(ratio) == {k * ratio : k \in Cells}

\* C21: after initRandomPlacement every cell's x lies in [boundary.xLo,
\* boundary.xHi] and its y in [boundary.yLo, boundary.yHi], whether the
\* boundary comes from the database constraint or is derived, and each
\* coordinate is a multiple k*(xHi/numCells) resp. k*(yHi/numCells) with
\* 0 <= k < numCells.
C21_Original ==
    (Returned("initRandomPlacement") /\ _numCells = db.numCells) =>
        \A c \in Cells :
            /\ _boundary.xLo <= _pl[PlxPos(c)] /\ _pl[PlxPos(c)] <= _boundary.xHi
            /\ _boundary.yLo <= _pl[PlyPos(c)] /\ _pl[PlyPos(c)] <= _boundary.yHi
            /\ _pl[PlxPos(c)] \in Multiples(_boundary.xHi \div db.numCells)
            /\ _pl[PlyPos(c)] \in Multiples(_boundary.yHi \div db.numCells)

\* the part of C21 that does not depend on the low corner of the boundary
C21_MultiplesBelowHigh ==
    (Returned("initRandomPlacement") /\ _numCells = db.numCells) =>
        \A c \in Cells :
            /\ 0 <= _pl[PlxPos(c)] /\ _pl[PlxPos(c)] <= _boundary.xHi
            /\ 0 <= _pl[PlyPos(c)] /\ _pl[PlyPos(c)] <= _boundary.yHi
            /\ _pl[PlxPos(c)] \in Multiples(_boundary.xHi \div db.numCells)
            /\ _pl[PlyPos(c)] \in Multiples(_boundary.yHi \div db.numCells)

\* C22: after initRandomPlacement the symmetry-axis variable of every
\* symmetry group g equals the boundary midpoint (xLo + xHi)/2, and the
\* position plIdx gives for group g holds that same value.
C22_AxesAtMidpoint ==
    (Returned("initRandomPlacement") /\ _numCells = db.numCells) =>
        \A g \in Groups :
            /\ _pl[SymPos(g)] = RHalf(RAdd(_boundary.xLo, _boundary.xHi))
            /\ _pl[plIdx(g, "NONE")] = RHalf(RAdd(_boundary.xLo, _boundary.xHi))

C22_Witness ==
    /\ Returned("initRandomPlacement")
    /\ build.MULTI_SYM_GROUP
    /\ db.numSymGroups = 2
    /\ db.boundarySet
    /\ _pl[plIdx(1, "NONE")] = RHalf(RAdd(_boundary.xLo, _boundary.xHi))
    /\ _pl[plIdx(1, "NONE")] > 0

\* the runs of task t by the wrappers, as <<wrapper, place in its log>>
Runs(t) ==
    UNION {{<<i, q>> : q \in {q \in 1..Len(run[i].log) : run[i].log[q] = t}} : i \in 1..Len(run)}

\* the evaluation tasks and the summation tasks constructed
EvaAndSumTasks ==
    UNION {{TaskId("eva", f, k) : k \in 1..Len(tasks.eva[f])} : f \in FamilySet}
    \cup {TaskId("sumObj", b, 0) : b \in Buffers}

TaskKinds == {"eva", "sumObj", "clear", "calc", "update", "sumGrad"}

\* C23: one solve() evaluates the objective exactly once: every evaluation
\* task and every summation task has run at most once at any time and exactly
\* once when solve() returns, the variable vector stays the one of the
\* initial placement, and what the wrappers run is never the stop-condition
\* check task.
C23_OneEvaluation ==
    /\ \A t \in EvaAndSumTasks : Cardinality(Runs(t)) <= 1
    /\ pc = "done" => \A t \in EvaAndSumTasks : Cardinality(Runs(t)) = 1
    /\ (Returned("initRandomPlacement") /\ _numCells = db.numCells) => _pl = PlacedVector
    /\ \A i \in 1..Len(run) :
          /\ run[i].task # "_checkStopConditionTask"
          /\ \A q \in 1..Len(run[i].log) : run[i].log[q].kind \in TaskKinds

C23_Witness ==
    /\ pc = "done"
    /\ build.firstOrder
    /\ "_checkStopConditionTask" \in tasks.single
    /\ Len(tasks.eva["hpwl"]) >= 1 /\ Len(tasks.eva["ovl"]) >= 1
    /\ \A t \in EvaAndSumTasks : Cardinality(Runs(t)) = 1
    /\ _pl = PlacedVector
    /\ \E p \in DOMAIN _pl : _pl[p] > 0

\* C24: the stop-condition policy is constructed from the kernel
\* (initOptimizationKernelMembers) before the stop-condition check task is
\* constructed and before any evaluation runs.
C24_Original ==
    ("_checkStopConditionTask" \in tasks.single \/ pc = "running" \/ pc = "done")
        => Returned("initOptimizationKernelMembers")

\* the passes one more evaluation is repeated for
MaxPasses == 3

RECURSIVE Passes(_, _, _)
\* n further runs of a wrapper body on the data m
Passes(m, body, n) == IF n = 0 THEN m ELSE Passes(RunBody(m, body), body, n - 1)

\* C25: evaluation passes do not accumulate: on the unchanged variable
\* vector, running the objective pass again, and in first-order mode the
\* gradient pass again, any number of times leaves the family totals, the
\* grand objective, the family gradients and the grand gradient at their
\* values after the first pass.
C25_PassesDoNotAccumulate ==
    pc = "done" =>
        \A n \in 1..MaxPasses :
            LET again == Passes(Memory, wrapObjAllTask(tasks), n)
            IN  /\ again.objs = objs
                /\ build.firstOrder =>
                      /\ Passes(Memory, wrapCalcGradTask(tasks), n).grads = grads
                      /\ Passes(again, wrapCalcGradTask(tasks), n).grads = grads
                      /\ Passes(again, wrapCalcGradTask(tasks), n).objs = objs

C25_Witness ==
    /\ pc = "done"
    /\ build.firstOrder
    /\ objs["all"] > 0 /\ objs["hpwl"] > 0
    /\ \E p \in DOMAIN grads["all"] : grads["all"][p] # 0
    /\ Passes(Memory, wrapObjAllTask(tasks), 2).objs = objs
    /\ Passes(Memory, wrapCalcGradTask(tasks), 2).grads = grads

\* the positions of _pl initVariables stores into: (*_sym)(0) without
\* MULTI_SYM_GROUP
initVariablesStores == IF build.MULTI_SYM_GROUP THEN {} ELSE {SymPos(0)}

\* the positions of _pl the two loops of initRandomPlacement store into
initRandomPlacementStores ==
    {PlxPos(idx) : idx \in Cells} \cup {PlyPos(idx) : idx \in Cells} \cup {SymPos(idx) : idx \in Groups}

\* the positions plIdx gives for the cells and the symmetry groups of the database
plIdxPositions ==
    {plIdx(c, "HORIZONTAL") : c \in Cells} \cup {plIdx(c, "VERTICAL") : c \in Cells}
    \cup {plIdx(g, "NONE") : g \in Groups}

\* C26: every access of the variable vector and of the gradients is in
\* bounds: every position plIdx gives for a valid cell or symmetry group, and
\* every position initVariables and initRandomPlacement store into, is below
\* 2*numCells + numSymGroups, for every database (zero symmetry groups and
\* more than one included) and in both builds.
C26_Original ==
    _numCells = db.numCells =>
        \A p \in plIdxPositions \cup initVariablesStores \cup initRandomPlacementStores :
            0 <= p /\ p < ProblemSize(db)

\* the part of C26 that leaves the store of initVariables out
C26_IndexMapAndPlacement ==
    _numCells = db.numCells =>
        \A p \in plIdxPositions \cup initRandomPlacementStores : 0 <= p /\ p < ProblemSize(db)

\* The locations the tasks work on: <<"pl", p>> a position of the variable
\* vector, <<"op", f, k>> an operator, <<"evaObj", f, k>> the value an
\* evaluation task keeps, <<"obj", b>> an objective total, <<"partials", f, k>>
\* the partials a calculate task keeps, <<"grad", b, p>> a gradient position.
OpLocs(f, k) ==
    {<<"op", f, k>>} \cup {<<"pl", plIdx(var[1], var[2])>> : var \in OpVars(f, ops[f][k])}

\* the gradient positions an update task adds into
UpdateLocs(t) ==
    LET u == tasks.update[t.fam][t.idx]
    IN  {<<"grad", u.grad, plIdx(var[1], var[2])>> :
            var \in OpVars(t.fam, ops[t.fam][tasks.calc[t.fam][u.calc].op])}

\* the locations task t stores into
Writes(t) ==
    CASE t.kind = "eva"     -> {<<"evaObj", t.fam, t.idx>>}
      [] t.kind = "sumObj"  -> {<<"obj", t.fam>>}
      [] t.kind = "clear"   -> {<<"grad", t.fam, p>> : p \in DOMAIN grads[t.fam]}
      [] t.kind = "calc"    -> {<<"partials", t.fam, t.idx>>}
      [] t.kind = "update"  -> UpdateLocs(t)
      [] t.kind = "sumGrad" -> {<<"grad", "all", p>> : p \in DOMAIN grads["all"]}

\* the locations task t loads from
Reads(t) ==
    CASE t.kind = "eva"     -> OpLocs(t.fam, tasks.eva[t.fam][t.idx].op)
      [] t.kind = "sumObj"  -> IF t.fam = "all" THEN {<<"obj", f>> : f \in FamilySet}
                               ELSE {<<"evaObj", t.fam, k>> : k \in 1..Len(tasks.eva[t.fam])}
      [] t.kind = "clear"   -> {}
      [] t.kind = "calc"    -> OpLocs(t.fam, tasks.calc[t.fam][t.idx].op)
      [] t.kind = "update"  -> {<<"partials", t.fam, tasks.update[t.fam][t.idx].calc>>}
                               \cup UpdateLocs(t)
      [] t.kind = "sumGrad" -> UNION {{<<"grad", f, p>> : p \in DOMAIN grads[f]} : f \in FamilySet}

\* one of the two tasks stores into a location the other loads from or stores into
Conflict(a, b) ==
    \/ Writes(a) \cap (Reads(b) \cup Writes(b)) # {}
    \/ Writes(b) \cap (Reads(a) \cup Writes(a)) # {}

\* the tasks of a wrapper body
TasksOf(name) == LET body == Body(name, tasks) IN {body[q] : q \in 1..Len(body)}

\* the locations whose value a step changes
ChangedLocs ==
    {<<"obj", b>> : b \in {b \in Buffers : objs'[b] # objs[b]}}
    \cup UNION {{<<"grad", b, p>> : p \in {p \in DOMAIN grads[b] : grads'[b][p] # grads[b][p]}} :
                  b \in Buffers}
    \cup UNION {{<<"evaObj", f, k>> :
                    k \in {k \in 1..Len(tasks.eva[f]) : tasks'.eva[f][k].obj # tasks.eva[f][k].obj}} :
                  f \in FamilySet}
    \cup UNION {{<<"partials", f, k>> :
                    k \in {k \in 1..Len(tasks.calc[f]) :
                              tasks'.calc[f][k].partials # tasks.calc[f][k].partials}} :
                  f \in FamilySet}

\* no two tasks of two different running wrappers conflict
RaceFree ==
    \A i, j \in 1..Len(run) :
        i # j => \A a \in TasksOf(run[i].task), b \in TasksOf(run[j].task) : ~Conflict(a, b)

\* C27: the first-order task graph is free of data races: of two tasks the
\* executor may run concurrently (the tasks of the objective wrapper against
\* the tasks of the gradient wrapper) neither stores into a location the
\* other loads from or stores into; and a task's step changes only locations
\* it is said to store into, the variable vector and the operators none.
C27_RaceFree ==
    /\ [](pc = "running" => RaceFree)
    /\ [][\A i \in 1..Len(run) : Steps(i) =>
              /\ ChangedLocs \subseteq Writes(NextTask(i))
              /\ _pl' = _pl /\ ops' = ops]_vars

C27_Witness ==
    /\ pc = "running"
    /\ build.firstOrder
    /\ Len(run) = 2
    /\ run[1].task = "_wrapObjAllTask" /\ run[2].task = "_wrapCalcGradTask"
    /\ ~Finished(run[1]) /\ ~Finished(run[2])
    /\ NextTask(1).kind = "eva" /\ NextTask(2).kind = "update"
    /\ Writes(NextTask(2)) # {}
    /\ Reads(NextTask(1)) \cap Reads(NextTask(2)) = {}
    /\ ~Conflict(NextTask(1), NextTask(2))

====
